---- MODULE Spec2Model ----
(***************************************************************************)
(* A model of utilization_from_sacct.py: one run of main() over the raw    *)
(* sacct rows of the accounting files, i.e. cleaning, the sreport call,    *)
(* the three per-class utilization calculators and usage_by_account; and   *)
(* of generate_sacct_reports.py, which writes the accounting files.        *)
(*                                                                         *)
(* Python floats are modelled as exact rationals n/d in lowest terms;      *)
(* strings that the code takes apart (ReqMem, Elapsed) are sequences of    *)
(* one-character strings; a TRES string "k=v,k=v" is the sequence of its   *)
(* entries; a pandas NaN/NA cell is the empty sequence <<>> and a present  *)
(* numeric cell v is <<v>>.                                                *)
(***************************************************************************)
EXTENDS Integers, Sequences, FiniteSets, TLC

\* ------------------------------------------------------------------ bounds
\* Largest number of rows in the concatenated accounting files of a run.
MaxRows == 3
\* Longest requested-memory string handed to convert_to_GiB on its own.
MaxMemLen == 3
\* Largest number of raw rows behind a dataset handed to the calculators on
\* their own.
MaxCalcRows == 2

\* ------------------------------------------------------- float arithmetic
RECURSIVE GCD(_, _)
GCD(a, b) == IF b = 0 THEN a ELSE GCD(b, a % b)

\* A float: the number n/d x T^s, with n/d in lowest terms (d > 0, n >= 0)
\* and T the calendar span end_date - start_date of the run in seconds. A
\* product with T (s = 1) or a quotient by it (s = -1) is kept as that
\* factor, so that numerators stay small; sums and comparisons are of floats
\* with the same power of T.
Rat(n, d) == LET g == GCD(n, d) IN [n |-> n \div g, d |-> d \div g, s |-> 0]

RInt(i) == [n |-> i, d |-> 1, s |-> 0]
RZero == RInt(0)
RAdd(a, b) ==
    CASE a.s = b.s -> [Rat(a.n * b.d + b.n * a.d, a.d * b.d) EXCEPT !.s = a.s]
RMul(a, b) == LET x == Rat(a.n, b.d)
                  y == Rat(b.n, a.d)
              IN  [n |-> x.n * y.n, d |-> x.d * y.d,
                   s |-> IF a.n = 0 \/ b.n = 0 THEN 0 ELSE a.s + b.s]
RDiv(a, b) == RMul(a, [n |-> b.d, d |-> b.n, s |-> 0 - b.s])
RLt(a, b) == CASE a.s = b.s -> a.n * b.d < b.n * a.d
RLe(a, b) == CASE a.s = b.s -> a.n * b.d <= b.n * a.d

\* Python's max(x1, x2, ...): the first maximal argument; a NaN argument that
\* is not the first one never compares greater and is passed over.
RECURSIVE PyMaxFrom(_, _, _)
PyMaxFrom(best, xs, i) ==
    IF i > Len(xs) THEN best
    ELSE IF xs[i] # <<>> /\ RLt(best, xs[i][1])
         THEN PyMaxFrom(xs[i][1], xs, i + 1)
         ELSE PyMaxFrom(best, xs, i + 1)

PyMax(first, rest) == PyMaxFrom(first, rest, 1)

\* DataFrame.product(axis=1) of one row, skipna=True: NaN cells are skipped.
RECURSIVE Product(_)
Product(cells) ==
    IF cells = <<>> THEN RInt(1)
    ELSE IF Head(cells) = <<>> THEN Product(Tail(cells))
         ELSE RMul(Head(cells)[1], Product(Tail(cells)))

\* Series.sum() of a column of floats.
RECURSIVE Sum(_)
Sum(col) == IF col = <<>> THEN RZero ELSE RAdd(Head(col), Sum(Tail(col)))

Column(df, f) == [i \in 1..Len(df) |-> df[i][f]]

\* -------------------------------------------------------------- constants
KIBI == Rat(1, 1024 * 1024)
MEBI == Rat(1, 1024)
GIBI == RInt(1)
TEBI == RInt(1024)

SECS_PER_DAY == 86400
SECS_PER_HOUR == 3600
SECS_PER_MINUTE == 60
HOURS_PER_DAY == 24

CPUS_PER_NODE == [def |-> RInt(48), gpu |-> RInt(48), bm |-> RInt(48)]
MEM_PER_NODE == [def |-> RInt(189), gpu |-> RInt(189), bm |-> RInt(1510)]
GPUS_PER_NODE == 4
\* 'bm': 68. * 1.51
BILLING_PER_NODE == [def |-> RInt(48), gpu |-> RInt(43 * 4), bm |-> Rat(68 * 151, 100)]
NODES_PER_PARTITION == [def |-> RInt(74), gpu |-> RInt(12), bm |-> RInt(2)]
TOTAL_NODES == RAdd(RAdd(NODES_PER_PARTITION.def, NODES_PER_PARTITION.gpu),
                    NODES_PER_PARTITION.bm)

UtilMethod == {"BY_RESOURCE", "BY_NODE", "BY_BILLING"}

\* A call that returned v, and a call that raised exception e.
Ok(v) == [err |-> "", val |-> v]
Raise(e) == [err |-> e, val |-> RZero]

\* Node-hours in place of node-days.
nodedays_hours(partition, period) ==
    RDiv(RMul(NODES_PER_PARTITION[partition], period), RInt(SECS_PER_HOUR))

nodedays(partition, period) ==
    RDiv(RMul(NODES_PER_PARTITION[partition], period), RInt(SECS_PER_DAY))

\* ------------------------------------------------------------ convert_to_GiB
Digit == ("0" :> 0) @@ ("1" :> 1) @@ ("2" :> 2) @@ ("3" :> 3) @@ ("4" :> 4) @@
         ("5" :> 5) @@ ("6" :> 6) @@ ("7" :> 7) @@ ("8" :> 8) @@ ("9" :> 9)

IsDigits(s) == Len(s) > 0 /\ \A i \in 1..Len(s) : s[i] \in DOMAIN Digit

RECURSIVE ParseInt(_)
ParseInt(s) == IF s = <<>> THEN 0
               ELSE 10 * ParseInt(SubSeq(s, 1, Len(s) - 1)) + Digit[s[Len(s)]]

RECURSIVE Pow10(_)
Pow10(k) == IF k = 0 THEN 1 ELSE 10 * Pow10(k - 1)

\* float(s) for s over the characters 0-9 and '.': Ok(value), or ValueError
\* when s has no digit, a second '.', or any other character.
float(s) ==
    LET dots == {i \in 1..Len(s) : s[i] = "."}
        digs == {i \in 1..Len(s) : s[i] \in DOMAIN Digit}
    IN  IF digs = {} \/ Cardinality(dots) > 1 \/ Cardinality(dots) + Cardinality(digs) # Len(s)
        THEN Raise("ValueError")
        ELSE IF dots = {} THEN Ok(RInt(ParseInt(s)))
        ELSE LET p == CHOOSE i \in dots : TRUE
                 whole == SubSeq(s, 1, p - 1)
                 frac == SubSeq(s, p + 1, Len(s))
             IN  Ok(Rat(ParseInt(whole) * Pow10(Len(frac)) + ParseInt(frac), Pow10(Len(frac))))

\* Decimal thousands in place of 1024.
unit_dict_decimal ==
    ("K" :> Rat(1, 1000 * 1000)) @@ ("M" :> Rat(1, 1000)) @@ ("G" :> GIBI) @@
    ("T" :> RInt(1000)) @@ ("?" :> GIBI)

unit_dict == ("K" :> KIBI) @@ ("M" :> MEBI) @@ ("G" :> GIBI) @@ ("T" :> TEBI) @@ ("?" :> GIBI)

convert_to_GiB(memstr) ==
    IF memstr = <<>> THEN Raise("IndexError")
    ELSE LET unit == memstr[Len(memstr)]
             amt == float(SubSeq(memstr, 1, Len(memstr) - 1))
         IN  IF amt.err # "" THEN amt
             ELSE IF unit \notin DOMAIN unit_dict THEN Raise("KeyError")
             ELSE Ok(RMul(amt.val, unit_dict[unit]))


\* ------------------------------------------------------------- TRES strings
\* "k1=v1,k2=v2" as the sequence of its entries; NA is a missing cell.
Tres(kv) == [na |-> FALSE, kv |-> kv]
NA == [na |-> TRUE, kv |-> <<>>]
KV(k, v) == [key |-> k, val |-> v]

\* Series.str.contains(f'{key}=', regex=False) on one cell.
str_contains(tres, key) == \E i \in 1..Len(tres.kv) : tres.kv[i].key = key

\* Series.str.extract(rf'{key}=(\d+)') then pd.to_numeric, on one cell:
\* the number of the first entry of that key, NaN when there is none.
str_extract(tres, key) ==
    LET hits == {i \in 1..Len(tres.kv) : tres.kv[i].key = key}
    IN  IF tres.na \/ hits = {} THEN <<>>
        ELSE LET first == CHOOSE i \in hits : \A j \in hits : i <= j
             IN  <<RInt(tres.kv[first].val)>>

\* ------------------------------------------------------------ Elapsed text
RECURSIVE str_replace_dash(_)
str_replace_dash(s) ==
    IF s = <<>> THEN <<>>
    ELSE (IF Head(s) = "-" THEN <<" ", "d", "a", "y", "s", " ">> ELSE <<Head(s)>>)
         \o str_replace_dash(Tail(s))

\* "HH:MM:SS" in seconds.
ParseClock(s) ==
    LET colons == {i \in 1..Len(s) : s[i] = ":"}
    IN  IF Cardinality(colons) # 2 THEN Raise("ValueError")
        ELSE LET c1 == CHOOSE i \in colons : \A j \in colons : i <= j
                 c2 == CHOOSE i \in colons : i # c1
                 hh == SubSeq(s, 1, c1 - 1)
                 mm == SubSeq(s, c1 + 1, c2 - 1)
                 ss == SubSeq(s, c2 + 1, Len(s))
             IN  IF IsDigits(hh) /\ IsDigits(mm) /\ IsDigits(ss)
                 THEN Ok(RInt(ParseInt(hh) * 3600 + ParseInt(mm) * 60 + ParseInt(ss)))
                 ELSE Raise("ValueError")

\* The clock part alone, the days dropped.
to_timedelta_clock(s) ==
    LET blanks == {i \in 1..Len(s) : s[i] = " "}
    IN  IF blanks = {} THEN ParseClock(s)
        ELSE ParseClock(SubSeq(s, (CHOOSE i \in blanks : \A j \in blanks : j <= i) + 1, Len(s)))

\* pd.to_timedelta(text).total_seconds() for "[N days ]HH:MM:SS".
to_timedelta(s) ==
    LET blanks == {i \in 1..Len(s) : s[i] = " "}
    IN  IF blanks = {} THEN ParseClock(s)
        ELSE LET b == CHOOSE i \in blanks : \A j \in blanks : i <= j
                 days == SubSeq(s, 1, b - 1)
                 clock == ParseClock(SubSeq(s, b + 6, Len(s)))
             IN  IF Len(s) >= b + 5 /\ SubSeq(s, b, b + 5) = <<" ", "d", "a", "y", "s", " ">>
                    /\ IsDigits(days) /\ clock.err = ""
                 THEN Ok(RAdd(RInt(ParseInt(days) * SECS_PER_DAY), clock.val))
                 ELSE Raise("ValueError")

\* ------------------------------------------------------- accounting rows
Row(id, name, acct, part, nodes, elapsed, cpus, mem, req, alloc) ==
    [JobID |-> id, JobName |-> name, Account |-> acct, Partition |-> part,
     NodeList |-> nodes, Elapsed |-> elapsed, ReqCPUS |-> cpus, ReqMem |-> mem,
     ReqTRES |-> req, AllocTRES |-> alloc]

OneDay == <<"1", "-", "0", "0", ":", "0", "0", ":", "0", "0">>
OneHour == <<"0", "1", ":", "0", "0", ":", "0", "0">>

\* Rows that the sacct files of the def,long partitions may hold.
DefRows ==
    { Row("1", "run", "a1", "def", "node001", OneDay, 48, <<"1", "0", "G">>,
          Tres(<<KV("billing", 48), KV("cpu", 48)>>), Tres(<<KV("billing", 48), KV("cpu", 48)>>)),
      Row("2", "run", "a2", "long", "node002", OneHour, 1, <<"4", "?">>,
          Tres(<<KV("billing", 1), KV("cpu", 1)>>), Tres(<<KV("billing", 1), KV("cpu", 1)>>)),
      Row("8", "run", "a1", "maint", "node003", OneHour, 4, <<"4", "G">>,
          Tres(<<KV("billing", 4), KV("cpu", 4)>>), Tres(<<KV("billing", 4), KV("cpu", 4)>>)),
      Row("1", "run", "a2", "def", "node004", OneHour, 4, <<"1", "2", "8", "K">>,
          Tres(<<KV("cpu", 4)>>), Tres(<<KV("cpu", 4)>>)) }

\* Rows that the sacct files of the gpu,gpulong partitions may hold.
GpuRows ==
    { Row("3", "run", "a1", "gpu", "gpu001", OneHour, 12, <<"2", "0", "4", "8", "M">>,
          Tres(<<KV("billing", 48), KV("cpu", 12), KV("gres/gpu", 2)>>),
          Tres(<<KV("billing", 48), KV("cpu", 12), KV("gres/gpu", 2)>>)),
      Row("4", "run", "a2", "gpulong", "gpu002", OneDay, 1, <<"1", "G">>,
          Tres(<<KV("billing", 43), KV("cpu", 1), KV("gres/gpu", 4)>>),
          Tres(<<KV("billing", 43), KV("cpu", 1), KV("gres/gpu", 2)>>)),
      Row("5", "run", "a2", "gpu", "gpu003", OneHour, 12, <<"1", "G">>,
          Tres(<<KV("billing", 12), KV("cpu", 12)>>), Tres(<<KV("billing", 12), KV("cpu", 12)>>)),
      Row("3", "run", "a1", "gpu", "None assigned", OneHour, 12, <<"1", "G">>,
          Tres(<<KV("billing", 48), KV("cpu", 12), KV("gres/gpu", 2)>>), NA) }

\* Rows that the sacct files of the bm partition may hold.
BmRows ==
    { Row("6", "run", "a1", "bm", "bm001", OneHour, 1, <<"2", "T">>,
          Tres(<<KV("billing", 68), KV("cpu", 1)>>), Tres(<<KV("billing", 68), KV("cpu", 1)>>)),
      Row("7", "run", "a2", "bm", "bm002", OneHour, 1, <<"1", "6", "P">>,
          Tres(<<KV("billing", 68), KV("cpu", 1)>>), Tres(<<KV("billing", 68), KV("cpu", 1)>>)) }

\* pd.concat over the files sacct_def_*, sacct_gpu_*, sacct_bm_*, in that order.
RawInputs ==
    UNION { { d \o g \o b : d \in [1..n[1] -> DefRows], g \in [1..n[2] -> GpuRows],
                            b \in [1..n[3] -> BmRows] } :
            n \in {m \in (0..MaxRows) \X (0..MaxRows) \X (0..MaxRows) :
                     m[1] + m[2] + m[3] <= MaxRows} }

\* ---------------------------------------------------------------- cleaning
\* keep='last': the last row of each JobID.
drop_duplicates_last(df) ==
    SelectSeq([i \in 1..Len(df) |->
                  IF \A j \in (i + 1)..Len(df) : df[j].JobID # df[i].JobID
                  THEN df[i] ELSE [JobID |-> ""]],
              LAMBDA r : r.JobID # "")

\* One pass that removes a single repeated row, the last one.
drop_duplicates_once(df) ==
    LET dup == {i \in 1..Len(df) : \E j \in 1..(i - 1) : df[j].JobID = df[i].JobID}
    IN  IF dup = {} THEN df
        ELSE LET k == CHOOSE i \in dup : \A j \in dup : j <= i
             IN  SubSeq(df, 1, k - 1) \o SubSeq(df, k + 1, Len(df))

\* DataFrame.drop_duplicates(subset=['JobID']): the first row of each JobID.
drop_duplicates(df) ==
    LET keepIdx == {i \in 1..Len(df) : \A j \in 1..(i - 1) : df[j].JobID # df[i].JobID}
        RECURSIVE pick(_)
        pick(i) == IF i > Len(df) THEN <<>>
                   ELSE (IF i \in keepIdx THEN <<df[i]>> ELSE <<>>) \o pick(i + 1)
    IN  pick(1)

KeepNodeList(r) == r.NodeList # "None assigned"
KeepJobName(r) == r.JobName # "batch" /\ r.JobName # "extern"
KeepReqTRES(r) == ~r.ReqTRES.na
KeepAccount(r) == r.Account # "urcftestprj"

\* Only the first of the filters.
DropMarked_nodes(df) == SelectSeq(df, KeepNodeList)

DropMarked(df) ==
    SelectSeq(SelectSeq(SelectSeq(SelectSeq(df, KeepNodeList), KeepJobName), KeepReqTRES),
              KeepAccount)

\* Elapsed as seconds, the Billing and SU columns; the columns kept are those
\* of line 896.
Typed(r) ==
    LET secs == to_timedelta(str_replace_dash(r.Elapsed)).val
        bill == str_extract(r.AllocTRES, "billing")
    IN  [JobID |-> r.JobID, Account |-> r.Account, Partition |-> r.Partition,
         Elapsed |-> secs, ReqCPUS |-> r.ReqCPUS, ReqMem |-> r.ReqMem,
         ReqTRES |-> r.ReqTRES, AllocTRES |-> r.AllocTRES, Billing |-> bill,
         SU |-> RDiv(Product(<<<<secs>>, bill>>), RInt(SECS_PER_HOUR))]

\* The duplicates dropped first and the row filters applied to what is left.
Clean_dedup_first(raw) ==
    LET kept == DropMarked(drop_duplicates(raw))
        bad == {i \in 1..Len(kept) : to_timedelta(str_replace_dash(kept[i].Elapsed)).err # ""}
    IN  IF bad # {} THEN [err |-> "ValueError", df |-> <<>>]
        ELSE [err |-> "", df |-> [i \in 1..Len(kept) |-> Typed(kept[i])]]

\* Lines 860-904 of main(): the cleaned dataset, or the exception raised.
Clean(raw) ==
    LET kept == drop_duplicates(DropMarked(raw))
        bad == {i \in 1..Len(kept) : to_timedelta(str_replace_dash(kept[i].Elapsed)).err # ""}
    IN  IF bad # {} THEN [err |-> "ValueError", df |-> <<>>]
        ELSE [err |-> "", df |-> [i \in 1..Len(kept) |-> Typed(kept[i])]]

\* ------------------------------------------------------------------- dates
IsLeap(y) == (y % 4 = 0 /\ y % 100 # 0) \/ y % 400 = 0

\* calendar.monthrange(year, month)[-1]
monthrange(y, m) ==
    IF m = 2 THEN (IF IsLeap(y) THEN 29 ELSE 28)
    ELSE IF m \in {4, 6, 9, 11} THEN 30 ELSE 31

\* Days from 1 January of year 2021 to the first day of month m of year y.
RECURSIVE DaysBefore(_, _)
DaysBefore(y, m) ==
    IF y = 2021 /\ m = 1 THEN 0
    ELSE IF m = 1 THEN DaysBefore(y - 1, 12) + monthrange(y - 1, 12)
    ELSE DaysBefore(y, m - 1) + monthrange(y, m - 1)

\* The first day of the year in place of the first day of the month.
StartDate_january(ym) == [year |-> ym.year, month |-> ym.month, t |-> DaysBefore(ym.year, 1) * SECS_PER_DAY]

\* A datetime: its year and month, and t, its seconds since 2021-01-01 00:00:00.
\* start_date = datetime(year, month, 1)
StartDate(ym) ==
    [year |-> ym.year, month |-> ym.month, t |-> DaysBefore(ym.year, ym.month) * SECS_PER_DAY]

\* end_date = datetime(year, month, last_day_of_month) + one_day - one_sec
EndDate(ym) ==
    [year |-> ym.year, month |-> ym.month,
     t |-> (DaysBefore(ym.year, ym.month) + monthrange(ym.year, ym.month) - 1) * SECS_PER_DAY
           + SECS_PER_DAY - 1]

\* (end_date - start_date).total_seconds(): the calendar span T itself, and
\* 0.0 for two equal datetimes.
timedelta(start_date, end_date) ==
    IF end_date.t = start_date.t THEN RZero ELSE [n |-> 1, d |-> 1, s |-> 1]

\* The number of seconds that the factor T of a float stands for.
total_seconds(start_date, end_date) == end_date.t - start_date.t

\* The period the capacities are computed over, in seconds: the
\* "if not uptime_secs" branches (None and 0.0 are both falsy).
Period(uptime_secs, start_date, end_date) ==
    IF uptime_secs = <<>> \/ uptime_secs[1].n = 0
    THEN timedelta(start_date, end_date)
    ELSE uptime_secs[1]

\* ------------------------------------------------------------- calculators
\* numpy float64 division: x / 0 is inf (nan for 0 / 0), kept as d = 0.
Percent(allocated, avail) ==
    IF avail.n = 0 THEN [n |-> allocated.n, d |-> 0, s |-> 0]
    ELSE RMul(RDiv(allocated, avail), RInt(100))

\* What a calculator returns and prints: the utilization, 'Total avail.' and
\* 'Allocated', and the data frame with the columns it added.
Result(util, avail, allocated, df) ==
    [err |-> "", util |-> util, avail |-> avail, allocated |-> allocated, df |-> df]
Failed(e) == [err |-> e, util |-> RZero, avail |-> RZero, allocated |-> RZero, df |-> <<>>]

\* df['ReqMem'] = df['ReqMem'].apply(convert_to_GiB)
ApplyConvert(df) ==
    LET bad == {i \in 1..Len(df) : convert_to_GiB(df[i].ReqMem).err # ""}
    IN  IF bad # {}
        THEN [err |-> convert_to_GiB(df[CHOOSE i \in bad : \A j \in bad : i <= j].ReqMem).err,
              df |-> <<>>]
        ELSE [err |-> "",
              df |-> [i \in 1..Len(df) |-> [ReqMem |-> convert_to_GiB(df[i].ReqMem).val] @@ df[i]]]

\* The FracNode and FracNodeSeconds columns of one row; others are the
\* arguments of max() after the first.
FracNodeRow(r, first, others) ==
    LET frac == PyMax(first, others)
    IN  [FracNode |-> frac, FracNodeSeconds |-> Product(<<<<r.Elapsed>>, <<frac>>>>)] @@ r

\* The sum of SU taken for the allocated total as it is.
TotalSU_hours(df) == Sum(Column(df, "SU"))

TotalSU(df) == RDiv(Sum(Column(df, "SU")), RInt(HOURS_PER_DAY))

utilization_def(def_sacct_df, uptime_secs, start_date, end_date, util_method) ==
    LET max_nodedays == nodedays("def", Period(uptime_secs, start_date, end_date))
        df1 == [i \in 1..Len(def_sacct_df) |->
                  [CPUseconds |-> Product(<<<<def_sacct_df[i].Elapsed>>,
                                            <<RInt(def_sacct_df[i].ReqCPUS)>>>>)]
                  @@ def_sacct_df[i]]
    IN  IF util_method = "BY_RESOURCE" THEN
            LET max_cpudays == RMul(CPUS_PER_NODE.def, max_nodedays)
                total_cpudays_allocated == RDiv(Sum(Column(df1, "CPUseconds")), RInt(SECS_PER_DAY))
            IN  Result(Percent(total_cpudays_allocated, max_cpudays), max_cpudays,
                       total_cpudays_allocated, df1)
        ELSE IF util_method = "BY_NODE" THEN
            LET conv == ApplyConvert(df1)
                df2 == [i \in 1..Len(conv.df) |->
                          FracNodeRow(conv.df[i],
                                      RDiv(RInt(conv.df[i].ReqCPUS), CPUS_PER_NODE.def),
                                      <<<<RDiv(conv.df[i].ReqMem, MEM_PER_NODE.def)>>>>)]
                total_nodedays_allocated ==
                    RDiv(Sum(Column(df2, "FracNodeSeconds")), RInt(SECS_PER_DAY))
            IN  IF conv.err # "" THEN Failed(conv.err)
                ELSE Result(Percent(total_nodedays_allocated, max_nodedays), max_nodedays,
                            total_nodedays_allocated, df2)
        ELSE IF util_method = "BY_BILLING" THEN
            LET max_su == RMul(BILLING_PER_NODE.def, max_nodedays)
            IN  Result(Percent(TotalSU(df1), max_su), max_su, TotalSU(df1), df1)
        ELSE Result(RZero, RZero, RZero, df1)

\* No filter on the gres/gpu request.
HasGpuRequest_all(r) == TRUE

HasGpuRequest(r) == str_contains(r.ReqTRES, "gres/gpu")

utilization_gpu(gpu_sacct_df, uptime_secs, start_date, end_date, util_method) ==
    LET filtered == SelectSeq(gpu_sacct_df, HasGpuRequest)
        df1 == [i \in 1..Len(filtered) |->
                  LET ReqGPUS == str_extract(filtered[i].AllocTRES, "gres/gpu")
                  IN  [ReqGPUS |-> ReqGPUS,
                       GPUseconds |-> Product(<<<<filtered[i].Elapsed>>, ReqGPUS>>)]
                      @@ filtered[i]]
        max_nodedays == nodedays("gpu", Period(uptime_secs, start_date, end_date))
    IN  IF util_method = "BY_RESOURCE" THEN
            LET max_gpudays == RMul(RInt(GPUS_PER_NODE), max_nodedays)
                total_gpudays_allocated == RDiv(Sum(Column(df1, "GPUseconds")), RInt(SECS_PER_DAY))
            IN  Result(Percent(total_gpudays_allocated, max_gpudays), max_gpudays,
                       total_gpudays_allocated, df1)
        ELSE IF util_method = "BY_NODE" THEN
            LET conv == ApplyConvert(df1)
                df2 == [i \in 1..Len(conv.df) |->
                          FracNodeRow(conv.df[i],
                                      RDiv(RInt(conv.df[i].ReqCPUS), CPUS_PER_NODE.gpu),
                                      << <<RDiv(conv.df[i].ReqMem, MEM_PER_NODE.gpu)>>,
                                         IF conv.df[i].ReqGPUS = <<>> THEN <<>>
                                         ELSE <<RDiv(conv.df[i].ReqGPUS[1], RInt(GPUS_PER_NODE))>> >>)]
                total_nodedays_allocated ==
                    RDiv(Sum(Column(df2, "FracNodeSeconds")), RInt(SECS_PER_DAY))
            IN  IF conv.err # "" THEN Failed(conv.err)
                ELSE Result(Percent(total_nodedays_allocated, max_nodedays), max_nodedays,
                            total_nodedays_allocated, df2)
        ELSE IF util_method = "BY_BILLING" THEN
            LET max_su == RMul(BILLING_PER_NODE.gpu, max_nodedays)
            IN  Result(Percent(TotalSU(df1), max_su), max_su, TotalSU(df1), df1)
        ELSE Failed("UnboundLocalError")

\* The memory per bigmem node that the BY_RESOURCE capacity is computed
\* from: the literal of "2. * 1546. * ..." (lines 339 and 342).
BmResourceMemPerNode == RInt(1546)

utilization_bm(bm_sacct_df, uptime_secs, start_date, end_date, util_method, debug) ==
    LET conv == ApplyConvert(bm_sacct_df)
        period == Period(uptime_secs, start_date, end_date)
        max_memseconds == RMul(RMul(RInt(2), BmResourceMemPerNode), period)
        max_nodedays == nodedays("bm", period)
    IN  IF debug /\ uptime_secs = <<>> THEN Failed("TypeError")
        ELSE IF conv.err # "" THEN Failed(conv.err)
        ELSE IF util_method = "BY_RESOURCE" THEN
            LET df2 == [i \in 1..Len(conv.df) |->
                          [MemSeconds |-> Product(<<<<conv.df[i].Elapsed>>, <<conv.df[i].ReqMem>>>>)]
                          @@ conv.df[i]]
                total_memseconds_allocated == Sum(Column(df2, "MemSeconds"))
            IN  Result(Percent(total_memseconds_allocated, max_memseconds),
                       RDiv(max_memseconds, RInt(SECS_PER_DAY)),
                       RDiv(total_memseconds_allocated, RInt(SECS_PER_DAY)), df2)
        ELSE IF util_method = "BY_NODE" THEN
            LET df2 == [i \in 1..Len(conv.df) |->
                          FracNodeRow(conv.df[i],
                                      RDiv(RInt(conv.df[i].ReqCPUS), CPUS_PER_NODE.bm),
                                      <<<<RDiv(conv.df[i].ReqMem, MEM_PER_NODE.bm)>>>>)]
                total_nodedays_allocated ==
                    RDiv(Sum(Column(df2, "FracNodeSeconds")), RInt(SECS_PER_DAY))
            IN  Result(Percent(total_nodedays_allocated, max_nodedays), max_nodedays,
                       total_nodedays_allocated, df2)
        ELSE IF util_method = "BY_BILLING" THEN
            LET max_su == RMul(BILLING_PER_NODE.bm, max_nodedays)
            IN  Result(Percent(TotalSU(conv.df), max_su), max_su, TotalSU(conv.df), conv.df)
        ELSE Result(RZero, RZero, RZero, conv.df)

\* ------------------------------------------------------------ classification
IsDef(r) == r.Partition = "def" \/ r.Partition = "long"
IsGpu(r) == r.Partition = "gpu" \/ r.Partition = "gpulong"
\* A match on part of the name ("long" also ends the gpulong and long names).
IsBm_loose(r) == r.Partition \in {"bm", "long"}

IsBm(r) == r.Partition = "bm"

Tag(df, nodetype) == [i \in 1..Len(df) |-> [NodeType |-> nodetype] @@ df[i]]

\* The three deep copies that utilization() cuts out of sacct_df.
def_subset(sacct_df) == Tag(SelectSeq(sacct_df, IsDef), "standard")
gpu_subset(sacct_df) == Tag(SelectSeq(sacct_df, IsGpu), "gpu")
bm_subset(sacct_df) == Tag(SelectSeq(sacct_df, IsBm), "bigmem")

utilization(partition, sacct_df, uptime_secs, start_date, end_date, util_method, debug) ==
    IF partition = "def"
    THEN utilization_def(def_subset(sacct_df), uptime_secs, start_date, end_date, util_method)
    ELSE IF partition = "gpu"
    THEN utilization_gpu(gpu_subset(sacct_df), uptime_secs, start_date, end_date, util_method)
    ELSE IF partition = "bm"
    THEN utilization_bm(bm_subset(sacct_df), uptime_secs, start_date, end_date, util_method, debug)
    ELSE Failed("TypeError")

\* --------------------------------------------------------- usage_by_account
\* The account names of the model, in the alphabetical order in which
\* groupby() and pivot() arrange them.
AccountOrder == <<"a1", "a2", "urcftestprj">>
AccountRank(a) == CHOOSE i \in 1..Len(AccountOrder) : AccountOrder[i] = a

NodeTypes == {"bigmem", "gpu", "standard"}

\* groupby(...).first() in place of .sum(): the first row of each pair.
GroupSum_first(usage_df, col) ==
    { [Account |-> a, NodeType |-> t,
       val |-> SelectSeq(usage_df, LAMBDA r : r.Account = a /\ r.NodeType = t)[1][col]] :
      <<a, t>> \in { <<usage_df[i].Account, usage_df[i].NodeType>> : i \in 1..Len(usage_df) } }

\* groupby(['Account', 'NodeType']).sum(): one row per pair that occurs.
GroupSum(usage_df, col) ==
    { [Account |-> a, NodeType |-> t,
       val |-> Sum(Column(SelectSeq(usage_df, LAMBDA r : r.Account = a /\ r.NodeType = t), col))] :
      <<a, t>> \in { <<usage_df[i].Account, usage_df[i].NodeType>> : i \in 1..Len(usage_df) } }

Cell(grouped, a, t) ==
    LET hit == {g \in grouped : g.Account = a /\ g.NodeType = t}
    IN  IF hit = {} THEN RZero ELSE (CHOOSE g \in hit : TRUE).val

\* pivot(index='Account', columns='NodeType').fillna(0), then the two sums
\* of columns (lines 631-632 and 696-697): rows in index order.
PivotWithTotals(grouped) ==
    LET accts == {g.Account : g \in grouped}
        ranked == {AccountRank(a) : a \in accts}
        RECURSIVE rows(_)
        rows(i) ==
            IF i > Len(AccountOrder) THEN <<>>
            ELSE (IF i \in ranked
                  THEN LET a == AccountOrder[i]
                       IN  <<[Account |-> a,
                              bigmem |-> Cell(grouped, a, "bigmem"),
                              gpu |-> Cell(grouped, a, "gpu"),
                              standard |-> Cell(grouped, a, "standard"),
                              Total |-> RAdd(RAdd(Cell(grouped, a, "bigmem"), Cell(grouped, a, "gpu")),
                                             Cell(grouped, a, "standard")),
                              GPUStandard |-> RAdd(Cell(grouped, a, "gpu"),
                                                   Cell(grouped, a, "standard"))]>>
                  ELSE <<>>) \o rows(i + 1)
    IN  rows(1)

\* The first of the columns 'bigmem', 'gpu', 'standard' (the order in which
\* line 631 / 696 reads them) that the pivot table does not have.
MissingColumn(grouped) ==
    LET present == {g.NodeType : g \in grouped}
    IN  IF "bigmem" \notin present THEN "bigmem"
        ELSE IF "gpu" \notin present THEN "gpu"
        ELSE IF "standard" \notin present THEN "standard"
        ELSE ""

\* The rows left in the order of the pivot index (no sort).
SortedDescending_unsorted(rows) == {rows}

\* sort_values(by=Total, ascending=False) with the default quicksort: every
\* arrangement of the rows with non-increasing totals (ties in any order).
SortedDescending(rows) ==
    LET n == Len(rows)
        perms == {p \in [1..n -> 1..n] : \A i, j \in 1..n : i # j => p[i] # p[j]}
    IN  { [i \in 1..n |-> rows[p[i]]] : p \in
            {q \in perms : \A i \in 1..(n - 1) : RLe(rows[q[i + 1]].Total, rows[q[i]].Total)} }

\* n_months = int(delta_t.total_seconds() / SECS_PER_DAY / 30.)
n_months(start_date, end_date) == (end_date.t - start_date.t) \div (SECS_PER_DAY * 30)

Usage(err, grouped, table, outputs, files) ==
    [err |-> err, grouped |-> grouped, table |-> table, outputs |-> outputs, files |-> files]

\* The table of one method: col is the per-job column, divisor turns it
\* into the unit reported, threshold is the minimum-usage filter.
UsageTable(def_df, gpu_df, bm_df, col, divisor, threshold, early, late) ==
    LET usage_df == [i \in 1..Len(def_df \o gpu_df \o bm_df) |->
                       LET r == (def_df \o gpu_df \o bm_df)[i]
                       IN  [Account |-> r.Account, NodeType |-> r.NodeType,
                            val |-> RDiv(r[col], RInt(divisor))]]
        grouped == GroupSum(usage_df, "val")
        table == PivotWithTotals(grouped)
        kept == SelectSeq(table, LAMBDA r : RLt(RInt(threshold), r.Total))
    IN  IF MissingColumn(grouped) # ""
        THEN Usage("KeyError", grouped, <<>>, {<<>>}, early)
        ELSE Usage("", grouped, table, SortedDescending(kept), early \cup late)

usage_by_account(def_sacct_df, gpu_sacct_df, bm_sacct_df, start_date, end_date, util_method, debug) ==
    IF debug THEN Usage("NameError", {}, <<>>, {<<>>}, {})
    ELSE IF util_method = "BY_NODE"
    THEN UsageTable(def_sacct_df, gpu_sacct_df, bm_sacct_df, "FracNodeSeconds", SECS_PER_HOUR,
                    n_months(start_date, end_date),
                    {"usage_by_account.csv", "usage_by_account_totals.csv",
                     "usage_by_account_per_nodetype.csv"},
                    {"node_usage_by_account_per_nodetype.png"})
    ELSE IF util_method = "BY_BILLING"
    THEN UsageTable(def_sacct_df, gpu_sacct_df, bm_sacct_df, "SU", 1, 48,
                    {"total_su_per_account.csv"}, {"su_usage_by_account_per_nodetype.png"})
    ELSE Usage("", {}, <<>>, {<<>>}, {})

\* -------------------------------------------------------------- sreport
\* What the sreport subprocess may do when it is run: print the utilization
\* record (minutes), fail, or never come back (the run() call has no timeout).
SreportOutcomes ==
    { [kind |-> "ok", Allocated |-> 3041280, Reported |-> 6082560],
      [kind |-> "ok", Allocated |-> 3041280, Reported |-> 12165120],
      [kind |-> "ok", Allocated |-> 0, Reported |-> 0],
      [kind |-> "FileNotFoundError", Allocated |-> 0, Reported |-> 0],
      [kind |-> "CalledProcessError", Allocated |-> 0, Reported |-> 0],
      [kind |-> "PermissionError", Allocated |-> 0, Reported |-> 0],
      [kind |-> "hang", Allocated |-> 0, Reported |-> 0] }

\* sreport_utilization(): (utilization, reported_secs), or the exception.
sreport_utilization(out) ==
    IF out.kind # "ok" THEN [err |-> out.kind, utilization |-> RZero, reported_secs |-> RZero]
    ELSE IF out.Reported = 0
    THEN [err |-> "ZeroDivisionError", utilization |-> RZero, reported_secs |-> RZero]
    ELSE [err |-> "",
          utilization |-> RMul(Rat(out.Allocated, out.Reported), RInt(100)),
          reported_secs |-> RDiv(RInt(out.Reported * SECS_PER_MINUTE),
                                 RMul(TOTAL_NODES, CPUS_PER_NODE.def))]

\* ------------------------------------------------------------ the run, main()
\* The months that -S and -E may name.
Months == { [year |-> 2021, month |-> 1], [year |-> 2021, month |-> 2] }

\* -u: one of the methods, or absent.
MethodArgs == UtilMethod \cup {"None"}

VARIABLES
    pc,            \* where main() is
    error,         \* the exception or exit that ended the run, "" if none
    DEBUG_P,       \* -d
    util_method,   \* -u
    args_start,    \* -S
    args_end,      \* -E
    start_date,    \* datetimes, once computed
    end_date,
    sacct_df,      \* the data frame of main(): raw rows, then cleaned
    uptime_secs,   \* <<>> until sreport_utilization() returned it
    util,          \* partition |-> what its calculator returned and printed
    class_df,      \* partition |-> the data frame its calculator returned
    usage,         \* what usage_by_account() built
    output_df,     \* the ranked account table it plotted
    files,         \* the output files written so far
    raw_df,        \* the rows read, when the cleaning steps are run on their own
    sacct_files,   \* the accounting files that generate_sacct_reports.py wrote
    memstr,        \* a requested-memory string given to convert_to_GiB alone
    GiB            \* <<>>, or <<what convert_to_GiB(memstr) returned or raised>>

vars == <<pc, error, DEBUG_P, util_method, args_start, args_end, start_date, end_date,
          sacct_df, uptime_secs, util, class_df, usage, output_df, files, raw_df,
          sacct_files, memstr, GiB>>

NoDate == [year |-> 0, month |-> 0, t |-> 0]
NoUsage == Usage("", {}, <<>>, {<<>>}, {})
Empty == [x \in {} |-> 0]

Init ==
    /\ pc = "start"
    /\ error = ""
    /\ DEBUG_P \in BOOLEAN
    /\ util_method \in MethodArgs
    /\ args_start \in Months
    /\ args_end \in Months
    /\ start_date = NoDate
    /\ end_date = NoDate
    /\ sacct_df = <<>>
    /\ uptime_secs = <<>>
    /\ util = Empty
    /\ class_df = Empty
    /\ usage = NoUsage
    /\ output_df = <<>>
    /\ files = {}
    /\ raw_df = <<>>
    /\ sacct_files = {}
    /\ memstr = <<>>
    /\ GiB = <<>>

Stop(how, e) == pc' = how /\ error' = e

\* Lines 781-819: the data directory check, the dates, the period check.
ParseArgs ==
    /\ pc = "start"
    /\ \E isdir \in BOOLEAN :
         IF ~isdir
         THEN /\ Stop("exit", "exit 3")
              /\ UNCHANGED <<start_date, end_date>>
         ELSE /\ start_date' = StartDate(args_start)
              /\ end_date' = EndDate(args_end)
              /\ IF EndDate(args_end).t < StartDate(args_start).t
                 THEN Stop("exit", "exit 1")
                 ELSE pc' = "read" /\ error' = ""
    /\ UNCHANGED <<sacct_files, raw_df, memstr, GiB, DEBUG_P, util_method, args_start, args_end, sacct_df, uptime_secs, util,
                   class_df, usage, output_df, files>>

\* Line 853: read_sacct(filenames); a file of the list may not exist.
ReadSacct ==
    /\ pc = "read"
    /\ \/ \E rows \in RawInputs : sacct_df' = rows /\ pc' = "clean" /\ error' = ""
       \/ sacct_df' = sacct_df /\ Stop("raised", "FileNotFoundError")
    /\ UNCHANGED <<sacct_files, raw_df, memstr, GiB, DEBUG_P, util_method, args_start, args_end, start_date, end_date,
                   uptime_secs, util, class_df, usage, output_df, files>>

\* Lines 860-906: cleaning, the Billing and SU columns, the pickle.
CleanRows ==
    /\ pc = "clean"
    /\ LET c == Clean(sacct_df)
       IN  IF c.err # ""
           THEN Stop("raised", c.err) /\ UNCHANGED <<sacct_df, files>>
           ELSE /\ sacct_df' = c.df
                /\ files' = files \cup {"sacct_df.pkl"}
                /\ pc' = "sreport" /\ error' = ""
    /\ UNCHANGED <<sacct_files, raw_df, memstr, GiB, DEBUG_P, util_method, args_start, args_end, start_date, end_date,
                   uptime_secs, util, class_df, usage, output_df>>

\* The call made again after a failure of the tool.
Sreport_retry ==
    /\ pc = "sreport"
    /\ \E out \in SreportOutcomes :
         LET r == sreport_utilization(out)
         IN  IF out.kind = "hang"
             THEN Stop("blocked", "") /\ UNCHANGED <<uptime_secs, util>>
             ELSE IF r.err # ""
             THEN pc' = "sreport" /\ error' = r.err /\ UNCHANGED <<uptime_secs, util>>
             ELSE /\ uptime_secs' = <<r.reported_secs>>
                  /\ util' = ("general" :> Result(r.utilization, RZero, RZero, <<>>))
                  /\ pc' = "def" /\ error' = ""
    /\ UNCHANGED <<sacct_files, raw_df, memstr, GiB, DEBUG_P, util_method, args_start, args_end, start_date,
                   end_date, sacct_df, class_df, usage, output_df, files>>

\* Line 913: util['general'], uptime_secs = sreport_utilization(...)
Sreport ==
    /\ pc = "sreport"
    /\ \E out \in SreportOutcomes :
         LET r == sreport_utilization(out)
         IN  IF out.kind = "hang"
             THEN Stop("blocked", "") /\ UNCHANGED <<uptime_secs, util>>
             ELSE IF r.err # ""
             THEN Stop("raised", r.err) /\ UNCHANGED <<uptime_secs, util>>
             ELSE /\ uptime_secs' = <<r.reported_secs>>
                  /\ util' = ("general" :> Result(r.utilization, RZero, RZero, <<>>))
                  /\ pc' = "def" /\ error' = ""
    /\ UNCHANGED <<sacct_files, raw_df, memstr, GiB, DEBUG_P, util_method, args_start, args_end, start_date, end_date,
                   sacct_df, class_df, usage, output_df, files>>

\* What main() does with the pair r that utilization() returned for a
\* partition, or with the exception it raised.
Returns(partition, next, r) ==
    /\ IF r.err # ""
       THEN Stop("raised", r.err) /\ UNCHANGED <<util, class_df>>
       ELSE /\ util' = (partition :> r) @@ util
            /\ class_df' = (partition :> r.df) @@ class_df
            /\ pc' = next /\ error' = ""
    /\ files' = IF DEBUG_P /\ partition = "gpu" THEN files \cup {"gpu_sacct_df.csv"}
                ELSE files

\* Lines 914-916: util[p], p_sacct_df = utilization(p, sacct_df=sacct_df, ...)
Calculate(partition, next) ==
    /\ pc = partition
    /\ Returns(partition, next, utilization(partition, sacct_df, uptime_secs, start_date, end_date,
                                            util_method, DEBUG_P))
    /\ UNCHANGED <<sacct_files, raw_df, memstr, GiB, DEBUG_P, util_method, args_start, args_end, start_date, end_date,
                   sacct_df, uptime_secs, usage, output_df>>

UtilDef == Calculate("def", "gpu")
UtilGpu == Calculate("gpu", "bm")
UtilBm == Calculate("bm", "usage")

\* Line 922: usage_by_account(def_sacct_df=..., gpu_sacct_df=..., bm_sacct_df=..., ...)
UsageByAccount ==
    /\ pc = "usage"
    /\ LET u == usage_by_account(class_df["def"], class_df["gpu"], class_df["bm"],
                                 start_date, end_date, util_method, DEBUG_P)
       IN  /\ usage' = u
           /\ files' = files \cup u.files
           /\ \E o \in u.outputs : output_df' = o
           /\ IF u.err # "" THEN Stop("raised", u.err) ELSE pc' = "done" /\ error' = ""
    /\ UNCHANGED <<sacct_files, raw_df, memstr, GiB, DEBUG_P, util_method, args_start, args_end, start_date, end_date,
                   sacct_df, uptime_secs, util, class_df>>

Next ==
    \/ ParseArgs
    \/ ReadSacct
    \/ CleanRows
    \/ Sreport
    \/ UtilDef
    \/ UtilGpu
    \/ UtilBm
    \/ UsageByAccount

Spec == Init /\ [][Next]_vars

\* -------------------------------------------- convert_to_GiB on its own
\* The characters of the requested-memory strings tried.
MemChars == {"0", "1", "2", "4", ".", "K", "M", "G", "T", "?", "P"}

MemStrings == UNION { [1..n -> MemChars] : n \in 1..MaxMemLen }

InitConvert ==
    /\ memstr \in MemStrings
    /\ raw_df = <<>>
    /\ sacct_files = {}
    /\ GiB = <<>>
    /\ pc = "convert"
    /\ error = ""
    /\ DEBUG_P = FALSE
    /\ util_method = "None"
    /\ args_start = [year |-> 2021, month |-> 1]
    /\ args_end = [year |-> 2021, month |-> 1]
    /\ start_date = NoDate
    /\ end_date = NoDate
    /\ sacct_df = <<>>
    /\ uptime_secs = <<>>
    /\ util = Empty
    /\ class_df = Empty
    /\ usage = NoUsage
    /\ output_df = <<>>
    /\ files = {}

Convert ==
    /\ pc = "convert"
    /\ GiB' = <<convert_to_GiB(memstr)>>
    /\ pc' = "converted"
    /\ UNCHANGED <<sacct_files, raw_df, memstr, error, DEBUG_P, util_method, args_start, args_end, start_date,
                   end_date, sacct_df, uptime_secs, util, class_df, usage, output_df, files>>

NextConvert == Convert

SpecConvert == InitConvert /\ [][NextConvert]_vars

\* ---------------------------------------- the calculators on their own
\* uptime_secs=None (the default of the three calculators), 0.0, or the
\* seconds of one or two days.
UptimeArgs == {<<>>, <<RZero>>, <<RInt(SECS_PER_DAY)>>, <<RInt(2 * SECS_PER_DAY)>>}

\* The cleaned datasets tried.
CalcInputs ==
    {Clean(raw).df : raw \in {r \in RawInputs : Len(r) <= MaxCalcRows /\ Clean(r).err = ""}}

\* utilization('def'), utilization('gpu'), utilization('bm') called, as main()
\* calls them, on any cleaned dataset with any uptime, period and method; the
\* period is the one main() makes of two months, or an empty one (end_date
\* the same datetime as start_date).
InitCalc ==
    /\ pc = "def"
    /\ error = ""
    /\ DEBUG_P \in BOOLEAN
    /\ util_method \in MethodArgs
    /\ args_start \in Months
    /\ args_end \in {m \in Months : StartDate(args_start).t <= EndDate(m).t}
    /\ start_date = StartDate(args_start)
    /\ end_date \in {EndDate(args_end), StartDate(args_start)}
    /\ sacct_df \in CalcInputs
    /\ uptime_secs \in UptimeArgs
    /\ util = Empty
    /\ class_df = Empty
    /\ usage = NoUsage
    /\ output_df = <<>>
    /\ files = {}
    /\ raw_df = <<>>
    /\ sacct_files = {}
    /\ memstr = <<>>
    /\ GiB = <<>>

NextCalc == UtilDef \/ UtilGpu \/ UtilBm

SpecCalc == InitCalc /\ [][NextCalc]_vars

\* ------------------------------------- the cleaning steps on their own
\* Elapsed texts [D-]HH:MM:SS as sacct prints them.
ElapsedTexts ==
    { (IF D = <<>> THEN <<>> ELSE D \o <<"-">>) \o hh \o <<":">> \o mm \o <<":">> \o ss :
        D \in {<<>>, <<"0">>, <<"1">>, <<"1", "0">>, <<"3", "6", "5">>},
        hh \in {<<"0", "0">>, <<"0", "1">>, <<"2", "3">>},
        mm \in {<<"0", "0">>, <<"5", "9">>},
        ss \in {<<"0", "0">>, <<"0", "1">>, <<"5", "9">>} }

\* A job of the def partition with each of these texts.
ElapsedRows ==
    { Row("9", "run", "a1", "def", "node001", e, 1, <<"1", "G">>,
          Tres(<<KV("billing", 1), KV("cpu", 1)>>), Tres(<<KV("billing", 1), KV("cpu", 1)>>)) :
        e \in ElapsedTexts }

\* Rows of the sacct_def_* files that one of the filters of lines 860-876
\* drops: a job named batch or extern, a job that got no node, a job of the
\* test account, a row without ReqTRES.
MarkedRows ==
    { Row("1", "batch", "a1", "def", "node001", OneHour, 48, <<"1", "0", "G">>,
          Tres(<<KV("billing", 48), KV("cpu", 48)>>), Tres(<<KV("billing", 48), KV("cpu", 48)>>)),
      Row("2", "extern", "a2", "long", "node002", OneHour, 1, <<"1", "G">>,
          Tres(<<KV("billing", 1), KV("cpu", 1)>>), Tres(<<KV("billing", 1), KV("cpu", 1)>>)),
      Row("2", "run", "a2", "long", "None assigned", OneHour, 1, <<"1", "G">>,
          Tres(<<KV("billing", 1), KV("cpu", 1)>>), NA),
      Row("8", "run", "urcftestprj", "def", "node003", OneHour, 4, <<"4", "G">>,
          Tres(<<KV("billing", 4), KV("cpu", 4)>>), Tres(<<KV("billing", 4), KV("cpu", 4)>>)),
      Row("1", "run", "a1", "def", "node001", OneHour, 48, <<"1", "0", "G">>, NA, NA) }

\* The raw row sets that lines 860-904 of main() are tried on.
CleanInputs ==
    RawInputs \cup {<<r>> : r \in ElapsedRows}
              \cup UNION { [1..n -> DefRows \cup MarkedRows] : n \in 1..MaxRows }

InitClean ==
    /\ pc = "cleaning"
    /\ error = ""
    /\ DEBUG_P = FALSE
    /\ util_method = "None"
    /\ args_start = [year |-> 2021, month |-> 1]
    /\ args_end = [year |-> 2021, month |-> 1]
    /\ start_date = NoDate
    /\ end_date = NoDate
    /\ raw_df \in CleanInputs
    /\ sacct_files = {}
    /\ sacct_df = <<>>
    /\ uptime_secs = <<>>
    /\ util = Empty
    /\ class_df = Empty
    /\ usage = NoUsage
    /\ output_df = <<>>
    /\ files = {}
    /\ memstr = <<>>
    /\ GiB = <<>>

\* Lines 860-904 applied to raw_df.
CleanAlone ==
    /\ pc = "cleaning"
    /\ LET c == Clean(raw_df)
       IN  /\ sacct_df' = c.df
           /\ error' = c.err
           /\ pc' = IF c.err = "" THEN "cleaned" ELSE "raised"
    /\ UNCHANGED <<sacct_files, raw_df, memstr, GiB, DEBUG_P, util_method, args_start, args_end, start_date,
                   end_date, uptime_secs, util, class_df, usage, output_df, files>>

NextClean == CleanAlone

SpecClean == InitClean /\ [][NextClean]_vars

\* --------------------------- the run from the call of the summary tool on
\* main() at line 913: the dataset is cleaned and pickled, and
\* sreport_utilization() is called. A call that is made returns, raises or
\* blocks; the process takes the steps it can take.
InitTool ==
    /\ pc = "sreport"
    /\ error = ""
    /\ DEBUG_P \in BOOLEAN
    /\ util_method \in MethodArgs
    /\ args_start \in Months
    /\ args_end \in {m \in Months : StartDate(args_start).t <= EndDate(m).t}
    /\ start_date = StartDate(args_start)
    /\ end_date = EndDate(args_end)
    /\ sacct_df \in CalcInputs
    /\ uptime_secs = <<>>
    /\ util = Empty
    /\ class_df = Empty
    /\ usage = NoUsage
    /\ output_df = <<>>
    /\ files = {"sacct_df.pkl"}
    /\ raw_df = <<>>
    /\ sacct_files = {}
    /\ memstr = <<>>
    /\ GiB = <<>>

NextTool == Sreport

SpecTool == InitTool /\ [][NextTool]_vars /\ WF_vars(NextTool)

\* ------------------------------ the three calculators called in any order
\* utilization('def'), utilization('gpu') and utilization('bm') of lines
\* 914-916, each called once on the cleaned dataset, in whatever order the
\* caller takes them (one after the other, or as parallel tasks that each
\* return when they are done). A call that raises is recorded with its
\* exception and the other calls are still made.
InitOrder ==
    /\ pc = "calc"
    /\ error = ""
    /\ DEBUG_P \in BOOLEAN
    /\ util_method \in MethodArgs
    /\ args_start = [year |-> 2021, month |-> 1]
    /\ args_end = [year |-> 2021, month |-> 1]
    /\ start_date = StartDate(args_start)
    /\ end_date = EndDate(args_end)
    /\ sacct_df \in CalcInputs
    /\ uptime_secs \in {<<>>, <<RInt(SECS_PER_DAY)>>}
    /\ util = Empty
    /\ class_df = Empty
    /\ usage = NoUsage
    /\ output_df = <<>>
    /\ files = {}
    /\ raw_df = <<>>
    /\ sacct_files = {}
    /\ memstr = <<>>
    /\ GiB = <<>>

\* The caller's side of one call that gave r: the pair is kept.
Called(partition, r) ==
    /\ util' = (partition :> r) @@ util
    /\ class_df' = (partition :> r.df) @@ class_df
    /\ files' = IF DEBUG_P /\ partition = "gpu" THEN files \cup {"gpu_sacct_df.csv"}
                ELSE files

\* The rows of df that are among those of kept.
RowsAmong(df, kept) ==
    SelectSeq(df, LAMBDA r : \E i \in 1..Len(kept) : kept[i].JobID = r.JobID)

\* The calculator cutting its rows out of the data frame of the caller and
\* not out of a copy: the caller's frame holds the calculator's rows afterwards.
CalculateAny_inplace(partition) ==
    /\ pc = "calc"
    /\ partition \notin DOMAIN util
    /\ Called(partition, utilization(partition, sacct_df, uptime_secs, start_date, end_date,
                                     util_method, DEBUG_P))
    /\ sacct_df' = RowsAmong(sacct_df, utilization(partition, sacct_df, uptime_secs, start_date,
                                                   end_date, util_method, DEBUG_P).df)
    /\ UNCHANGED <<sacct_files, raw_df, memstr, GiB, pc, error, DEBUG_P, util_method, args_start, args_end,
                   start_date, end_date, uptime_secs, usage, output_df>>

CalculateAny(partition) ==
    /\ pc = "calc"
    /\ partition \notin DOMAIN util
    /\ Called(partition, utilization(partition, sacct_df, uptime_secs, start_date, end_date,
                                     util_method, DEBUG_P))
    /\ UNCHANGED <<sacct_files, raw_df, memstr, GiB, pc, error, DEBUG_P, util_method, args_start, args_end,
                   start_date, end_date, sacct_df, uptime_secs, usage, output_df>>

NextOrder == \E partition \in {"def", "gpu", "bm"} : CalculateAny(partition)

SpecOrder == InitOrder /\ [][NextOrder]_vars

\* --------------------------------- the accounting files, written and read
\* The months counted from year 0: the index of a month and the month of an index.
MonthIndex(ym) == ym.year * 12 + ym.month - 1
MonthOf(k) == [year |-> k \div 12, month |-> (k % 12) + 1]

\* delorean.stops(freq=delorean.MONTHLY, start=start, stop=stop) for a start
\* on the first of a month at 00:00: the datetimes start, start + 1 month,
\* start + 2 months, ... that are not after stop (the 'until' of the
\* recurrence rule is inclusive).
RECURSIVE stopsFrom(_, _)
stopsFrom(k, stop) ==
    IF StartDate(MonthOf(k)).t > stop.t THEN <<>>
    ELSE <<StartDate(MonthOf(k))>> \o stopsFrom(k + 1, stop)

stops(start, stop) == stopsFrom(MonthIndex(start), stop)

\* strftime("%Y%m") and f'{d.year}{d.month:02d}': the six digits as a number.
YYYYMM(d) == d.year * 100 + d.month

\* The file sacct_{partition}_{YYYYMM}.csv.
SacctFile(partition, d) == [partition |-> partition, date |-> YYYYMM(d)]

\* utilization_from_sacct.py, lines 828-847: the files that read_sacct() is
\* given for a period.
filenames(start, end) ==
    LET dates == IF end.t > start.t THEN stops(start, end) ELSE <<start>>
    IN  { SacctFile(ptn, dates[i]) : ptn \in {"def", "gpu", "bm"}, i \in 1..Len(dates) }

\* The months that -S and -E of generate_sacct_reports.py may name.
GenMonths == { [year |-> y, month |-> m] : y \in {2021, 2022}, m \in 1..12 }

\* generate_sacct_reports.py, lines 51-67: the files opened for writing when
\* every sacct call is made.
generated(start, end) ==
    LET dates == stops(start, end)
        ndates == Len(dates)
    IN  { SacctFile(ptn, dates[d]) : ptn \in {"def", "gpu", "bm"}, d \in 1..(ndates - 1) }

InitGen ==
    /\ pc = "generate"
    /\ error = ""
    /\ DEBUG_P = TRUE
    /\ util_method = "None"
    /\ args_start \in GenMonths
    /\ args_end \in GenMonths
    /\ start_date = NoDate
    /\ end_date = NoDate
    /\ sacct_df = <<>>
    /\ uptime_secs = <<>>
    /\ util = Empty
    /\ class_df = Empty
    /\ usage = NoUsage
    /\ output_df = <<>>
    /\ files = {}
    /\ raw_df = <<>>
    /\ sacct_files = {}
    /\ memstr = <<>>
    /\ GiB = <<>>

\* main() of generate_sacct_reports.py: the dates (both the first day of
\* their month), the period check, and one sacct call per month and
\* partition group, its output written to the file opened before it; when
\* there is no sacct command the first call raises, its file left empty.
Generate ==
    /\ pc = "generate"
    /\ start_date' = StartDate(args_start)
    /\ end_date' = StartDate(args_end)
    /\ IF StartDate(args_end).t < StartDate(args_start).t
       THEN Stop("exit", "exit 1") /\ UNCHANGED sacct_files
       ELSE \E sacct_found \in BOOLEAN :
              IF sacct_found
              THEN /\ sacct_files' = generated(StartDate(args_start), StartDate(args_end))
                   /\ pc' = "generated" /\ error' = ""
              ELSE IF generated(StartDate(args_start), StartDate(args_end)) = {}
              THEN /\ sacct_files' = {}
                   /\ pc' = "generated" /\ error' = ""
              ELSE /\ sacct_files' = {SacctFile("def", StartDate(args_start))}
                   /\ Stop("raised", "FileNotFoundError")
    /\ UNCHANGED <<raw_df, memstr, GiB, DEBUG_P, util_method, args_start, args_end, sacct_df,
                   uptime_secs, util, class_df, usage, output_df, files>>

NextGen == Generate

SpecGen == InitGen /\ [][NextGen]_vars

\* ======================================================================
\* Properties
\* ======================================================================
Classes == {"def", "gpu", "bm"}

\* The raw partition names of each partition class.
ClassNames == [def |-> {"def", "long"}, gpu |-> {"gpu", "gpulong"}, bm |-> {"bm"}]

\* The calculator of class p has returned in this run.
Returned(p) == p \in DOMAIN util

\* The jobs of the cleaned dataset that belong to class p.
JobsOf(p) == SelectSeq(sacct_df, LAMBDA r : r.Partition \in ClassNames[p])

RequestsGpu(r) == \E i \in 1..Len(r.ReqTRES.kv) : r.ReqTRES.kv[i].key = "gres/gpu"

\* The number of the first entry of key k in a TRES cell, other if none.
EntryOr(tres, k, other) ==
    LET hits == {i \in 1..Len(tres.kv) : tres.kv[i].key = k}
    IN  IF hits = {} THEN other
        ELSE tres.kv[CHOOSE i \in hits : \A j \in hits : i <= j].val

\* The sum of a sequence of rationals.
Total(xs) ==
    LET RECURSIVE upto(_)
        upto(i) == IF i = 0 THEN RZero ELSE RAdd(upto(i - 1), xs[i])
    IN  upto(Len(xs))

\* The length in days of the period the capacities are computed over.
PeriodDays == RDiv(uptime_secs[1], RInt(86400))

Hours(r) == RDiv(r.Elapsed, RInt(3600))

\* Billing weight x elapsed hours of each job of df; a job without a billing
\* entry counts with weight w.
BillingHours(df, w) ==
    [i \in 1..Len(df) |-> RMul(RInt(EntryOr(df[i].AllocTRES, "billing", w)), Hours(df[i]))]

BillingCapacity(p) ==
    RMul(RMul(BILLING_PER_NODE[p], NODES_PER_PARTITION[p]), PeriodDays)

\* The cleaned dataset is the one gpu job of scenario B and the period is one day.
ScenarioB ==
    /\ Len(sacct_df) = 1
    /\ sacct_df[1].Partition = "gpu"
    /\ sacct_df[1].Elapsed = RInt(3600)
    /\ EntryOr(sacct_df[1].AllocTRES, "billing", 0) = 48
    /\ RequestsGpu(sacct_df[1])
    /\ uptime_secs = <<RInt(86400)>>

ResourceCapacity(p, perNode) == RMul(RMul(perNode, NODES_PER_PARTITION[p]), PeriodDays)

\* C5, as stated: under BY_RESOURCE the capacity of each class is the
\* per-node amount of its defining resource in the capacity table x
\* node_count x period-days: 4 GPUs x 12 nodes, 48 cores x 74 nodes, and
\* the table's memory per bigmem node x 2 nodes.
C5_AsStated ==
    \A p \in Classes :
        (util_method = "BY_RESOURCE" /\ Returned(p)) =>
            util[p].avail = ResourceCapacity(p, IF p = "gpu" THEN RInt(GPUS_PER_NODE)
                                                ELSE IF p = "def" THEN CPUS_PER_NODE[p]
                                                ELSE MEM_PER_NODE[p])

\* The standard-class jobs are the one job of scenario A and the period is one day.
ScenarioA ==
    /\ Len(JobsOf("def")) = 1
    /\ JobsOf("def")[1].ReqCPUS = 48
    /\ JobsOf("def")[1].Elapsed = RInt(86400)
    /\ uptime_secs = <<RInt(86400)>>

\* C6: under BY_RESOURCE the allocated CPU-days of the standard class is the
\* sum over its jobs of requested CPUs x elapsed seconds, divided by 86400,
\* and utilization is allocated / (48 x 74 x period-days) x 100; one job of
\* 48 CPUs and one day in a one-day period gives 48 / 3552 x 100.
C6_CpuDays ==
    (util_method = "BY_RESOURCE" /\ Returned("def")) =>
        LET jobs == JobsOf("def")
            cpusecs == [i \in 1..Len(jobs) |-> RMul(RInt(jobs[i].ReqCPUS), jobs[i].Elapsed)]
        IN  /\ util["def"].allocated = RDiv(Total(cpusecs), RInt(86400))
            /\ util["def"].util =
                   RMul(RDiv(util["def"].allocated, RMul(RInt(48 * 74), PeriodDays)), RInt(100))
            /\ ScenarioA => util["def"].util = Rat(48 * 100, 3552)

C6_Witness ==
    /\ util_method = "BY_RESOURCE"
    /\ Returned("def")
    /\ ScenarioA
    /\ util["def"].allocated = RInt(48)

NodeTypeOf == [def |-> "standard", gpu |-> "gpu", bm |-> "bigmem"]

\* usage_by_account() has been called in this run (and returned or raised).
UsageRan == Returned("bm") /\ pc \in {"done", "raised"}

\* The sum over the accounts of the grouped consumption of node type t.
AccountSum(t) ==
    LET cells == {g \in usage.grouped : g.NodeType = t}
        RECURSIVE sum(_)
        sum(S) == IF S = {} THEN RZero
                  ELSE LET g == CHOOSE x \in S : TRUE IN RAdd(g.val, sum(S \ {g}))
    IN  sum(cells)

\* C2, as stated (the account figures are in hours and the calculators' in
\* days, so equal means 24 x): for each of the three methods the sum over the
\* accounts of the per-account consumption of a class equals the allocated
\* total the calculator computed for the class.
C2_AsStated ==
    (UsageRan /\ ~DEBUG_P /\ util_method \in UtilMethod) =>
        \A p \in Classes : AccountSum(NodeTypeOf[p]) = RMul(RInt(24), util[p].allocated)

\* C2, amended: for BY_NODE and BY_BILLING the sum over the accounts of the
\* per-account consumption (node-hours, SU) that usage_by_account groups for
\* a class equals 24 x the allocated total (node-days, SU / 24) that the
\* calculator computed for the class; under BY_RESOURCE, and when it raises
\* on entry, usage_by_account groups no per-account consumption at all.
C2_Conservation ==
    UsageRan =>
        IF util_method \in {"BY_NODE", "BY_BILLING"} /\ usage.err # "NameError"
        THEN \A p \in Classes : AccountSum(NodeTypeOf[p]) = RMul(RInt(24), util[p].allocated)
        ELSE usage.grouped = {}

\* An account has two jobs in one class and usage_by_account summed them.
C2_Witness ==
    /\ UsageRan
    /\ util_method \in {"BY_NODE", "BY_BILLING"}
    /\ \E g \in usage.grouped, p \in Classes :
          /\ NodeTypeOf[p] = g.NodeType
          /\ Cardinality({i \in 1..Len(class_df[p]) : class_df[p][i].Account = g.Account}) >= 2

\* The greatest of a non-empty set of rationals.
Greatest(S) == CHOOSE x \in S : \A y \in S : RLe(y, x)

\* C7, as stated: under BY_NODE the fractional node of each job is the
\* maximum of requested CPUs / cores-per-node and requested memory in GiB /
\* memory-per-node, and in the gpu class also of requested GPUs /
\* GPUs-per-node; 48 of 48 cores with 10 of 189 GiB gives exactly 1; the
\* node-days allocated are the sum of fractional node x elapsed seconds,
\* divided by 86400.
C7_AsStated ==
    \A p \in Classes :
        (util_method = "BY_NODE" /\ Returned(p)) =>
            LET df == class_df[p]
                frac(r) ==
                    Greatest({RDiv(RInt(r.ReqCPUS), CPUS_PER_NODE[p]),
                              RDiv(r.ReqMem, MEM_PER_NODE[p])}
                             \cup (IF p = "gpu"
                                   THEN {Rat(EntryOr(r.ReqTRES, "gres/gpu", 0), 4)}
                                   ELSE {}))
            IN  /\ \A i \in 1..Len(df) :
                      /\ df[i].FracNode = frac(df[i])
                      /\ (p = "def" /\ df[i].ReqCPUS = 48 /\ df[i].ReqMem = RInt(10))
                             => df[i].FracNode = RInt(1)
                /\ util[p].allocated =
                       RDiv(Total([i \in 1..Len(df) |-> RMul(frac(df[i]), df[i].Elapsed)]),
                            RInt(86400))

\* C8: under BY_RESOURCE and BY_NODE a gpu-class job whose requested-resource
\* spec has no gres/gpu entry adds nothing to the gpu allocated sum (the sum
\* is the one of the dataset without such jobs, and no such job is among the
\* rows summed), and no calculator changes the shared cleaned dataset, which
\* still holds the job.
C8_GpuFilter ==
    /\ [](  (util_method \in {"BY_RESOURCE", "BY_NODE"} /\ Returned("gpu")) =>
              /\ \A i \in 1..Len(class_df["gpu"]) : RequestsGpu(class_df["gpu"][i])
              /\ util["gpu"].allocated =
                     utilization("gpu",
                                 SelectSeq(sacct_df,
                                           LAMBDA r : r.Partition \in ClassNames["gpu"]
                                                         => RequestsGpu(r)),
                                 uptime_secs, start_date, end_date, util_method,
                                 DEBUG_P).allocated )
    /\ [][(pc \in Classes) => (sacct_df' = sacct_df)]_vars

\* The gpu calculator has returned and the dataset holds a gpu-class job
\* without a gres/gpu request.
C8_Witness ==
    /\ util_method \in {"BY_RESOURCE", "BY_NODE"}
    /\ Returned("gpu")
    /\ \E i \in 1..Len(sacct_df) :
          sacct_df[i].Partition \in ClassNames["gpu"] /\ ~RequestsGpu(sacct_df[i])

\* The dataset has been cleaned and the calculators read it.
Cleaned == pc \in Classes \cup {"usage", "done"}

IdsOf(df) == {df[i].JobID : i \in 1..Len(df)}

\* C9: the class of a job is decided by its raw partition name alone: "def"
\* and "long" are standard, "gpu" and "gpulong" gpu, "bm" bigmem; a job is
\* in at most one of the three subsets, and a job of any other partition is
\* in none and changes nothing in what the calculators return or raise.
C9_Classification ==
    Cleaned =>
        LET sub == [def |-> def_subset(sacct_df), gpu |-> gpu_subset(sacct_df),
                    bm |-> bm_subset(sacct_df)]
            known == SelectSeq(sacct_df,
                               LAMBDA r : r.Partition \in {"def", "long", "gpu", "gpulong", "bm"})
        IN  /\ \A i \in 1..Len(sacct_df), p \in Classes :
                  sacct_df[i].JobID \in IdsOf(sub[p]) <=> sacct_df[i].Partition \in ClassNames[p]
            /\ \A p \in Classes : \A i \in 1..Len(sub[p]) : sub[p][i].NodeType = NodeTypeOf[p]
            /\ \A i \in 1..Len(sacct_df) :
                  Cardinality({p \in Classes : sacct_df[i].JobID \in IdsOf(sub[p])}) <= 1
            /\ \A p \in Classes :
                  utilization(p, sacct_df, uptime_secs, start_date, end_date, util_method, DEBUG_P)
                  = utilization(p, known, uptime_secs, start_date, end_date, util_method, DEBUG_P)

\* The cleaned dataset holds a "long", a "gpulong" and a "maint" job and all
\* three calculators have returned.
C9_Witness ==
    /\ Returned("bm")
    /\ \A n \in {"long", "gpulong", "maint"} :
          \E i \in 1..Len(sacct_df) : sacct_df[i].Partition = n

\* C10, as stated: for BY_NODE and BY_BILLING and any cleaned job set,
\* usage_by_account yields one row per account, with a column for each of
\* standard, gpu and bigmem (zero when the account has no usage there) and a
\* total column that is the sum of the three.
C10_AsStated ==
    (UsageRan /\ ~DEBUG_P /\ util_method \in {"BY_NODE", "BY_BILLING"}) =>
        LET jobs == class_df["def"] \o class_df["gpu"] \o class_df["bm"]
            accounts == {jobs[i].Account : i \in 1..Len(jobs)}
            used(a, t) == \E i \in 1..Len(jobs) : jobs[i].Account = a /\ jobs[i].NodeType = t
        IN  /\ usage.err = ""
            /\ {usage.table[i].Account : i \in 1..Len(usage.table)} = accounts
            /\ Len(usage.table) = Cardinality(accounts)
            /\ \A i \in 1..Len(usage.table) :
                  LET row == usage.table[i]
                  IN  /\ \A t \in NodeTypes : ~used(row.Account, t) => row[t] = RZero
                      /\ row.Total = RAdd(RAdd(row.standard, row.gpu), row.bigmem)

\* The minimum-usage threshold of the run: 48 SU under BY_BILLING, and under
\* BY_NODE one node-hour per 30 days of the reporting period.
Threshold ==
    IF util_method = "BY_BILLING" THEN 48
    ELSE ((end_date.t - start_date.t) \div 86400) \div 30

CapacityPerDay(p) ==
    IF util_method = "BY_NODE" THEN NODES_PER_PARTITION[p]
    ELSE IF util_method = "BY_BILLING" THEN RMul(BILLING_PER_NODE[p], NODES_PER_PARTITION[p])
    ELSE RMul(NODES_PER_PARTITION[p],
              IF p = "gpu" THEN RInt(4) ELSE IF p = "def" THEN RInt(48) ELSE RInt(1546))

\* The calendar span of the reporting period, in seconds.
CalendarSpan == timedelta(start_date, end_date)

C12_NonZeroUptime ==
    \A p \in Classes :
        (util_method \in UtilMethod /\ Returned(p) /\ uptime_secs # <<RZero>>) =>
            util[p].avail =
                RMul(CapacityPerDay(p),
                     RDiv(IF uptime_secs # <<>> THEN uptime_secs[1] ELSE CalendarSpan,
                          RInt(86400)))

\* The month given with -E is earlier than the month given with -S.
EndBeforeStart ==
    \/ args_end.year < args_start.year
    \/ args_end.year = args_start.year /\ args_end.month < args_start.month

\* C13: when the end month precedes the start month the run never gets past
\* the checks of its arguments: it reads no accounting file, does not call
\* the summary tool, writes no file, computes nothing, and once stopped it
\* has exited with a failure status; when the end month is the start month
\* or later, the run never exits on the period check.
C13_PeriodCheck ==
    /\ EndBeforeStart =>
           /\ pc \in {"start", "exit"}
           /\ pc = "exit" => error \in {"exit 1", "exit 3"}
           /\ sacct_df = <<>> /\ uptime_secs = <<>> /\ files = {}
           /\ util = Empty /\ class_df = Empty /\ usage = NoUsage /\ output_df = <<>>
    /\ ~EndBeforeStart => error # "exit 1"

\* The run was given an end month before the start month, in an existing
\* data directory, and has exited on the period check.
C13_Witness == EndBeforeStart /\ pc = "exit" /\ error = "exit 1"

\* The cleaning steps have run on raw_df.
CleanedAlone == pc \in {"cleaned", "raised"}

\* The rows of raw_df that reach the deduplication step.
Reaching == DropMarked(raw_df)

\* The index in df of the first row with job identifier id.
FirstOf(df, id) == CHOOSE i \in 1..Len(df) : df[i].JobID = id /\ \A j \in 1..(i - 1) : df[j].JobID # id

\* C14: after cleaning no two records share a job identifier; the
\* identifiers kept are those of the rows that reached the deduplication
\* step, and the record of each is made from the first of these rows in
\* concatenation order; a dataset with duplicates is cleaned without error.
C14_KeepFirst ==
    CleanedAlone =>
        /\ pc = "cleaned"
        /\ \A i, j \in 1..Len(sacct_df) : sacct_df[i].JobID = sacct_df[j].JobID => i = j
        /\ IdsOf(sacct_df) = IdsOf(Reaching)
        /\ \A i \in 1..Len(sacct_df) :
              sacct_df[i] = Typed(Reaching[FirstOf(Reaching, sacct_df[i].JobID)])

\* Two different rows with one job identifier reached the deduplication step.
C14_Witness ==
    /\ pc = "cleaned"
    /\ \E i, j \in 1..Len(Reaching) :
          i < j /\ Reaching[i].JobID = Reaching[j].JobID /\ Reaching[i] # Reaching[j]

\* C15: deduplicating a deduplicated record set returns the same records in
\* the same order.
C15_Idempotent ==
    CleanedAlone =>
        /\ drop_duplicates(drop_duplicates(Reaching)) = drop_duplicates(Reaching)
        /\ drop_duplicates(sacct_df) = sacct_df

\* The deduplication removed more than one row of one job identifier.
C15_Witness ==
    /\ pc = "cleaned"
    /\ Len(sacct_df) >= 1
    /\ Len(Reaching) >= Len(sacct_df) + 2

\* A raw row that one of the four row filters drops.
Marked(r) ==
    \/ r.NodeList = "None assigned"
    \/ r.JobName \in {"batch", "extern"}
    \/ r.ReqTRES.na
    \/ r.Account = "urcftestprj"

\* C16: every cleaned record is made from a raw row that has no node list
\* 'None assigned', no job name 'batch' or 'extern', a requested-resource
\* spec and another account than 'urcftestprj'; and every raw row without
\* these marks that is the first row of its job identifier is in the cleaned
\* set.
C16_RowFilters ==
    pc = "cleaned" =>
        /\ \A i \in 1..Len(sacct_df) :
              /\ sacct_df[i].Account # "urcftestprj"
              /\ ~sacct_df[i].ReqTRES.na
              /\ \E j \in 1..Len(raw_df) :
                    /\ ~Marked(raw_df[j])
                    /\ raw_df[j].JobID = sacct_df[i].JobID
                    /\ sacct_df[i] = Typed(raw_df[j])
              /\ \A j \in 1..Len(raw_df) :
                    (Marked(raw_df[j]) /\ raw_df[j].JobID = sacct_df[i].JobID)
                        => sacct_df[i] # Typed(raw_df[j])
        /\ \A j \in 1..Len(raw_df) :
              (~Marked(raw_df[j]) /\ \A k \in 1..(j - 1) : raw_df[k].JobID # raw_df[j].JobID)
                  => \E i \in 1..Len(sacct_df) : sacct_df[i] = Typed(raw_df[j])

\* The raw rows held a job named batch, a job of the test account and a
\* row that was kept.
C16_Witness ==
    /\ pc = "cleaned"
    /\ Len(sacct_df) = 1
    /\ \E j, k \in 1..Len(raw_df) :
          raw_df[j].JobName = "batch" /\ raw_df[k].Account = "urcftestprj"

\* ---------------------------------------- properties of convert_to_GiB
\* The decimal numeral of n.
RECURSIVE Numeral(_)
Numeral(n) ==
    LET d == <<"0", "1", "2", "3", "4", "5", "6", "7", "8", "9">>
    IN  IF n < 10 THEN <<d[n + 1]>> ELSE Numeral(n \div 10) \o <<d[(n % 10) + 1]>>

\* The amounts whose numeral and a suffix fit in a string of the lengths tried.
Amounts == 0..(Pow10(MaxMemLen - 1) - 1)

Converted == GiB # <<>>

\* C3, as stated: convert_to_GiB never raises on a string whose last
\* character is not one of K, M, G, T; it returns the amount with scale 1.
C3_AsStated ==
    Converted =>
        \A n \in Amounts, c \in MemChars \ {"K", "M", "G", "T"} :
            memstr = Numeral(n) \o <<c>> => GiB[1] = Ok(RInt(n))

\* C4: for every amount n, convert_to_GiB returns n/1048576 for suffix K,
\* n/1024 for M, n for G and n*1024 for T; "4G" gives 4 and "2T" gives 2048.
C4_UnitTable ==
    Converted =>
        /\ \A n \in Amounts :
              /\ memstr = Numeral(n) \o <<"K">> => GiB[1] = Ok(Rat(n, 1048576))
              /\ memstr = Numeral(n) \o <<"M">> => GiB[1] = Ok(Rat(n, 1024))
              /\ memstr = Numeral(n) \o <<"G">> => GiB[1] = Ok(RInt(n))
              /\ memstr = Numeral(n) \o <<"T">> => GiB[1] = Ok(RInt(n * 1024))
        /\ memstr = <<"4", "G">> => GiB[1].val = RInt(4)
        /\ memstr = <<"2", "T">> => GiB[1].val = RInt(2048)

C4_Witness == memstr = <<"2", "T">> /\ GiB = <<Ok(RInt(2048))>>

\* ------------------------------------------ properties of the Elapsed text
\* n with two digits.
TwoDigits(n) == IF n < 10 THEN <<"0">> \o Numeral(n) ELSE Numeral(n)

\* The text [D-]HH:MM:SS; D = -1 stands for no day prefix.
ElapsedText(D, hh, mm, ss) ==
    (IF D < 0 THEN <<>> ELSE Numeral(D) \o <<"-">>)
    \o TwoDigits(hh) \o <<":">> \o TwoDigits(mm) \o <<":">> \o TwoDigits(ss)

\* C17: a cleaned record whose raw row has the elapsed text [D-]HH:MM:SS has
\* the elapsed value D*86400 + HH*3600 + MM*60 + SS seconds (D = 0 without
\* the day prefix), and no elapsed value is negative.
C17_ElapsedSeconds ==
    pc = "cleaned" =>
        \A i \in 1..Len(sacct_df) :
            /\ RLe(RZero, sacct_df[i].Elapsed)
            /\ \A D \in {-1, 0, 1, 10, 365}, hh \in {0, 1, 23}, mm \in {0, 59}, ss \in {0, 1, 59} :
                  Reaching[FirstOf(Reaching, sacct_df[i].JobID)].Elapsed = ElapsedText(D, hh, mm, ss)
                      => sacct_df[i].Elapsed =
                             RInt((IF D < 0 THEN 0 ELSE D) * 86400 + hh * 3600 + mm * 60 + ss)

\* A job with elapsed text 10-23:59:59 was cleaned.
C17_Witness ==
    /\ pc = "cleaned"
    /\ Len(raw_df) = 1 /\ Len(sacct_df) = 1
    /\ raw_df[1].Elapsed = <<"1", "0", "-", "2", "3", ":", "5", "9", ":", "5", "9">>
    /\ sacct_df[1].Elapsed = RInt(950399)

\* ------------------------------------------ properties of the summary tool
\* C18, as stated: the call of the summary tool is bounded by a timeout, so a
\* run that is blocked in a call the tool never answers eventually ends in
\* a failure.
C18_AsStated == (pc = "blocked") ~> (pc = "raised")

\* The run has been ended by a failure of the summary tool: it is missing,
\* may not be executed, or exited with a non-zero status.
ToolFailed ==
    /\ pc = "raised"
    /\ error \in {"FileNotFoundError", "PermissionError", "CalledProcessError"}
    /\ sacct_df # <<>> \/ files # {}

\* Nothing of the report exists: no utilization figure, no account table.
NoReport == util = Empty /\ class_df = Empty /\ usage = NoUsage /\ output_df = <<>>

\* C19, as stated: the summary tool is called at most once in a run and
\* never again after a failure, and when it fails the run has ended having
\* emitted no partition utilization, no account table and no output file.
C19_AsStated ==
    /\ [](ToolFailed => (NoReport /\ files = {}))
    /\ [][(pc = "sreport" => pc' # "sreport") /\ (pc' = "sreport" => pc = "clean")
          /\ (pc # "raised")]_vars

\* C19, amended: the summary tool is called at most once in a run (the call
\* is entered only from the cleaning step and never entered again), a run
\* that raised takes no further step, and when the tool fails the run has
\* ended with no partition utilization and no account table; the one file
\* written by then is the pickle of the cleaned dataset.
C19_ToolFailure ==
    /\ [](ToolFailed => (NoReport /\ files = {"sacct_df.pkl"}))
    /\ [][(pc = "sreport" => pc' # "sreport") /\ (pc' = "sreport" => pc = "clean")
          /\ (pc # "raised")]_vars

\* The tool exited with a non-zero status and the run has ended.
C19_Witness == ToolFailed /\ error = "CalledProcessError"

\* ------------------------------------------------ properties of the method
\* C20, as stated: the method of a run is one of BY_RESOURCE, BY_NODE and
\* BY_BILLING; no run reaches a calculator with no method selected, and a
\* calculator that returned has computed its utilization in the branch of
\* that method (for a dataset without jobs of the class: 0 of the capacity
\* of that method).
C20_AsStated ==
    \A p \in Classes :
        /\ pc = p => util_method \in UtilMethod
        /\ Returned(p) =>
              /\ util_method \in UtilMethod
              /\ util[p].avail = RMul(CapacityPerDay(p), PeriodDays)

\* ------------------------------------- properties of the calls in any order
\* The rows of the cleaned dataset that the calculator of class p reads.
Own(p) == SelectSeq(sacct_df, LAMBDA r : r.Partition \in ClassNames[p])

\* C21: the row subsets that the three calculators read are pairwise
\* disjoint, no call changes the shared cleaned dataset, and whatever calls
\* were made before it, what the calculator of a class returns (or raises)
\* is what it returns for the rows of its own class alone in the dataset as
\* it was cleaned.
C21_OrderIndependent ==
    /\ [](pc = "calc" =>
            /\ IdsOf(def_subset(sacct_df)) \cap IdsOf(gpu_subset(sacct_df)) = {}
            /\ IdsOf(def_subset(sacct_df)) \cap IdsOf(bm_subset(sacct_df)) = {}
            /\ IdsOf(gpu_subset(sacct_df)) \cap IdsOf(bm_subset(sacct_df)) = {}
            /\ \A p \in Classes :
                  Returned(p) =>
                      util[p] = utilization(p, Own(p), uptime_secs, start_date, end_date,
                                            util_method, DEBUG_P))
    /\ [][sacct_df' = sacct_df]_vars

\* The bigmem and gpu calculators were called before the one of the standard
\* class, on a dataset that holds jobs of the standard and bigmem classes.
C21_Witness ==
    /\ pc = "calc"
    /\ Returned("bm") /\ Returned("gpu") /\ ~Returned("def")
    /\ Own("def") # <<>> /\ Own("bm") # <<>>

C22_ValidPeriod ==
    \A p \in Classes :
        (util_method \in UtilMethod /\ Returned(p) /\ start_date.t < end_date.t) =>
            /\ util[p].avail.n > 0
            /\ util[p].util.d > 0

\* ------------------------------------- properties of the accounting files
\* C23, as stated: for a start month not after the end month, when
\* generate_sacct_reports has run to its end, every file
\* sacct_{def,gpu,bm}_YYYYMM.csv that utilization_from_sacct reads for the
\* same start and end months (one per group for every month from the start
\* month through the end month) is one the generator wrote.
C23_AsStated ==
    pc = "generated" =>
        /\ filenames(StartDate(args_start), EndDate(args_end)) \subseteq sacct_files
        /\ \A ptn \in {"def", "gpu", "bm"}, k \in MonthIndex(args_start)..MonthIndex(args_end) :
              SacctFile(ptn, MonthOf(k)) \in sacct_files

\* What holds of the generator (not the claim): it writes the files of the
\* months from the start month up to the month before the end month.
C23_AllButLast ==
    pc = "generated" =>
        sacct_files = { SacctFile(ptn, MonthOf(k)) :
                          ptn \in {"def", "gpu", "bm"},
                          k \in MonthIndex(args_start)..(MonthIndex(args_end) - 1) }

\* ------------------------------------ properties of the minimum-usage filter
\* The number of calendar months of the reporting period, the start month
\* through the end month.
CalendarMonths == MonthIndex(args_end) - MonthIndex(args_start) + 1

\* The accounts of the rows of a table.
AccountsOf(table) == {table[i].Account : i \in 1..Len(table)}

\* C24, as stated: under BY_NODE the accounts of the filtered ranked table
\* are exactly those whose total node-hours is strictly greater than the
\* number of calendar months of the reporting period; for a period of one
\* month, those above 1 node-hour.
C24_AsStated ==
    (UsageRan /\ util_method = "BY_NODE" /\ usage.err = "") =>
        /\ AccountsOf(output_df) =
               AccountsOf(SelectSeq(usage.table, LAMBDA r : RLt(RInt(CalendarMonths), r.Total)))
        /\ args_start = args_end =>
               AccountsOf(output_df) =
                   AccountsOf(SelectSeq(usage.table, LAMBDA r : RLt(RInt(1), r.Total)))

\* What holds of the filter (not the claim): the threshold is the whole
\* number of 30-day spans in the period less its last second.
C24_ThirtyDays ==
    (UsageRan /\ util_method = "BY_NODE" /\ usage.err = "") =>
        AccountsOf(output_df) =
            AccountsOf(SelectSeq(usage.table,
                                 LAMBDA r : RLt(RInt((end_date.t - start_date.t) \div (30 * 86400)),
                                                r.Total)))

\* ------------------------------------------ properties of the calendar span
\* The days of the months from month a through month b.
RECURSIVE DaysOfMonths(_, _)
DaysOfMonths(a, b) ==
    IF MonthIndex(b) < MonthIndex(a) THEN 0
    ELSE monthrange(a.year, a.month) + DaysOfMonths(MonthOf(MonthIndex(a) + 1), b)

\* A calculator was called for the period main() makes of the two months,
\* with no uptime.
NoUptimeGiven == uptime_secs = <<>> /\ end_date = EndDate(args_end)

C25_LessOneSecond ==
    \A p \in Classes :
        (util_method \in UtilMethod /\ Returned(p) /\ NoUptimeGiven) =>
            /\ util[p].avail =
                   RMul(CapacityPerDay(p), RDiv(timedelta(start_date, end_date), RInt(86400)))
            /\ total_seconds(start_date, end_date) = DaysOfMonths(args_start, args_end) * 86400 - 1

\* ------------------------------------------- properties of the GPU count
\* The number of GPUs in the requested-resource spec of job r.
RequestedGpus(r) == EntryOr(r.ReqTRES, "gres/gpu", 0)

\* C26, as stated: for every gpu-class job that passed the GPU filter, the
\* GPU count is defined and is the number of GPUs of its requested-resource
\* spec; under BY_RESOURCE its GPU-seconds are that count x elapsed seconds,
\* under BY_NODE its fractional node is the maximum in which that count /
\* GPUs-per-node is the GPU term.
C26_AsStated ==
    (util_method \in {"BY_RESOURCE", "BY_NODE"} /\ Returned("gpu")) =>
        \A i \in 1..Len(class_df["gpu"]) :
            LET r == class_df["gpu"][i]
            IN  /\ r.ReqGPUS # <<>>
                /\ r.ReqGPUS = <<RInt(RequestedGpus(r))>>
                /\ util_method = "BY_RESOURCE" =>
                       r.GPUseconds = RMul(RInt(RequestedGpus(r)), r.Elapsed)
                /\ util_method = "BY_NODE" =>
                       r.FracNode = Greatest({RDiv(RInt(r.ReqCPUS), CPUS_PER_NODE.gpu),
                                              RDiv(r.ReqMem, MEM_PER_NODE.gpu),
                                              Rat(RequestedGpus(r), GPUS_PER_NODE)})

\* What holds of the GPU count (not the claim): it is the number of GPUs of
\* the allocated-resource spec, where there is one.
C26_AllocatedGpus ==
    (util_method \in {"BY_RESOURCE", "BY_NODE"} /\ Returned("gpu")) =>
        \A i \in 1..Len(class_df["gpu"]) :
            LET r == class_df["gpu"][i]
            IN  \/ r.ReqGPUS = <<RInt(EntryOr(r.AllocTRES, "gres/gpu", 0))>>
                \/ r.ReqGPUS = <<>> /\ ~str_contains(r.AllocTRES, "gres/gpu")

\* --------------------------------- properties of the order of the cleaning
\* The indices of the raw rows of job identifier id that pass the four row
\* filters.
Passing(id) == {j \in 1..Len(raw_df) : raw_df[j].JobID = id /\ ~Marked(raw_df[j])}

\* C27: a job identifier is in the cleaned set exactly when some raw row of
\* that identifier passes all four row filters, and its record is made from
\* the earliest passing row, also when an earlier row of the identifier
\* fails a filter.
C27_FiltersFirst ==
    pc = "cleaned" =>
        /\ IdsOf(sacct_df) = {id \in IdsOf(raw_df) : Passing(id) # {}}
        /\ \A i \in 1..Len(sacct_df) :
              LET first == CHOOSE j \in Passing(sacct_df[i].JobID) :
                               \A k \in Passing(sacct_df[i].JobID) : j <= k
              IN  sacct_df[i] = Typed(raw_df[first])

\* A row that fails a filter came before a passing row of the same job
\* identifier, and the job is in the cleaned set.
C27_Witness ==
    /\ pc = "cleaned"
    /\ \E j, k \in 1..Len(raw_df) :
          /\ j < k
          /\ raw_df[j].JobID = raw_df[k].JobID
          /\ Marked(raw_df[j]) /\ ~Marked(raw_df[k])
          /\ raw_df[k].JobID \in IdsOf(sacct_df)

\* --------------------------------- properties of the SU of the gpu class
\* C28, as stated: under BY_BILLING the allocated SU of the gpu class (the
\* sum of the SU column, in the calculator's unit of SU / 24) and the gpu
\* column of the account table are taken over every job classified gpu,
\* with or without a gres/gpu entry in its requested-resource spec.
C28_AsStated ==
    (util_method = "BY_BILLING" /\ Returned("gpu")) =>
        /\ util["gpu"].allocated = RDiv(Sum(Column(JobsOf("gpu"), "SU")), RInt(24))
        /\ IdsOf(class_df["gpu"]) = IdsOf(JobsOf("gpu"))
        /\ (UsageRan /\ usage.err = "") => AccountSum("gpu") = Sum(Column(JobsOf("gpu"), "SU"))

\* What holds under BY_BILLING (not the claim): the sums are taken over the
\* gpu-class jobs that have a gres/gpu entry in their requested-resource spec.
C28_FilteredAlways ==
    (util_method = "BY_BILLING" /\ Returned("gpu")) =>
        /\ util["gpu"].allocated =
               RDiv(Sum(Column(SelectSeq(JobsOf("gpu"), RequestsGpu), "SU")), RInt(24))
        /\ IdsOf(class_df["gpu"]) = IdsOf(SelectSeq(JobsOf("gpu"), RequestsGpu))
        /\ (UsageRan /\ usage.err = "") =>
               AccountSum("gpu") = Sum(Column(SelectSeq(JobsOf("gpu"), RequestsGpu), "SU"))

\* ------------------------------------------ properties of the debug flag
\* What usage_by_account() builds from the frames of the run with debugging
\* disabled.
UsageQuiet ==
    usage_by_account(class_df["def"], class_df["gpu"], class_df["bm"], start_date, end_date,
                     util_method, FALSE)

\* C29, as stated: a run with debugging enabled gets from every calculator
\* the result that the run with debugging disabled gets for the same inputs
\* and method, it completes exactly when that run completes, and it builds
\* the same account usage table and ranked report.
C29_AsStated ==
    /\ \A p \in Classes :
          Returned(p) =>
              util[p] = utilization(p, sacct_df, uptime_secs, start_date, end_date, util_method,
                                    FALSE)
    /\ UsageRan =>
          /\ usage.err = UsageQuiet.err
          /\ usage.table = UsageQuiet.table
          /\ output_df \in UsageQuiet.outputs
          /\ pc = "done" <=> UsageQuiet.err = ""

\* What holds of the calculators in a run of main() (not the claim): the
\* debug flag does not change what they return.
C29_Calculators ==
    \A p \in Classes :
        Returned(p) =>
            util[p] = utilization(p, sacct_df, uptime_secs, start_date, end_date, util_method,
                                  FALSE)

\* ------------------------------- properties of a job without a billing entry
\* The jobs of frame df of account a.
JobsOfAccount(df, a) == SelectSeq(df, LAMBDA r : r.Account = a)

\* C30, as stated: a job whose allocated-resource spec has no billing entry
\* has zero SU, so under BY_BILLING the allocated total of its class (in the
\* calculator's unit of SU / 24) is the sum of billing weight x elapsed hours
\* over the jobs of the class that have a billing entry, and so is the SU of
\* its account in that class.
C30_AsStated ==
    /\ Cleaned =>
          \A i \in 1..Len(sacct_df) :
              ~str_contains(sacct_df[i].AllocTRES, "billing") => sacct_df[i].SU = RZero
    /\ \A p \in Classes :
          (util_method = "BY_BILLING" /\ Returned(p)) =>
              /\ util[p].allocated = RDiv(Total(BillingHours(class_df[p], 0)), RInt(24))
              /\ (UsageRan /\ usage.err = "") =>
                     \A g \in usage.grouped :
                         g.NodeType = NodeTypeOf[p] =>
                             g.val = Total(BillingHours(JobsOfAccount(class_df[p], g.Account), 0))

\* What holds (not the claim): a job without a billing entry has the SU of
\* billing weight 1, its elapsed hours.
C30_WeightOne ==
    /\ Cleaned =>
          \A i \in 1..Len(sacct_df) :
              ~str_contains(sacct_df[i].AllocTRES, "billing") => sacct_df[i].SU = Hours(sacct_df[i])
    /\ \A p \in Classes :
          (util_method = "BY_BILLING" /\ Returned(p)) =>
              /\ util[p].allocated = RDiv(Total(BillingHours(class_df[p], 1)), RInt(24))
              /\ (UsageRan /\ usage.err = "") =>
                     \A g \in usage.grouped :
                         g.NodeType = NodeTypeOf[p] =>
                             g.val = Total(BillingHours(JobsOfAccount(class_df[p], g.Account), 1))

====
